---- MODULE Spec2Model ----
(***************************************************************************)
(* Model of src/src/serialize/per_type/list.rs: ListTupleSerializer, the   *)
(* recursive serializer of list and tuple objects, in its two builds:      *)
(* cfg(not(Py_GIL_DISABLED)) ("exclusive": elements are read through the   *)
(* container's data pointer) and cfg(Py_GIL_DISABLED) ("shared": elements  *)
(* are snapshotted, with Py_INCREF, under a critical section).             *)
(*                                                                         *)
(* The recursion of serialize is an explicit stack of frames, one per      *)
(* live ListTupleSerializer.  The output sink is the token sequence out.   *)
(***************************************************************************)
EXTENDS Integers, Sequences, FiniteSets, TLC

\* ---------------------------------------------------------------- bounds
MaxDepth == 3
MaxLen == 2
MaxMut == 1

\* ---------------------------------------------------------------- objects
Objs == {"root", "nested", "leaf"}
NoObj == "-"

ContainerKinds == {"List", "Tuple"}
Infallible == {"None", "Bool", "Uuid"}
Fallible == {"Str", "StrSubclass", "Int", "Float", "Datetime", "Date", "Time",
             "NumpyScalar", "Fragment"}
WithState == {"Dict", "Dataclass", "Enum", "NumpyArray", "Unknown"}
LeafKinds == Infallible \cup Fallible \cup WithState
ObType == ContainerKinds \cup LeafKinds

NoError == <<"none", "">>
RecursionLimit == <<"RecursionLimit", "">>
ElementError(k) == <<"ElementError", k>>

VARIABLES
  kind,      \* object -> ObType tag the classifier returns for it
  fails,     \* object -> whether its own serializer returns Err
  items,     \* container -> its element references (ob_item[0..Py_SIZE))
  refcnt,    \* object -> ownership count (0: freed)
  mode,      \* "exclusive" | "shared": which cfg the build was compiled with
  depth0,    \* depth of the SerializerState the caller passes to the root
  stack,     \* live ListTupleSerializer instances, root first
  out,       \* tokens written to the output sink so far
  result,    \* what the root serialize call returned (NoError[1] = "none": running)
  cs,        \* the list whose critical section is held, or NoObj
  prev,      \* outcome of the exclusive-owner run of the same input
  memfault,  \* a freed or out-of-range element was read
  nclass,    \* number of elements classified so far in this call
  nmut       \* mutations the other thread has made

vars == <<kind, fails, items, refcnt, mode, depth0, stack, out, result, cs,
          prev, memfault, nclass, nmut>>

heapvars == <<kind, fails, items, refcnt>>

\* ---------------------------------------------------------------- state.rs
SerializerState(d) == [depth |-> d]

recursion_limit(state) == state.depth >= MaxDepth

copy_for_recursive_call(state) == [state EXCEPT !.depth = @ + 1]

\* ---------------------------------------------------------------- helpers
SeqsUpTo(S, n) == UNION {[1..k -> S] : k \in 0..n}

Occ(s, o) == Cardinality({i \in 1..Len(s) : s[i] = o})

Top == stack[Len(stack)]

SetTop(f) == [stack EXCEPT ![Len(stack)] = f]

Alive(o) == refcnt[o] > 0

Py_SIZE(o) == Len(items[o])

Tok(tag, o, d) == <<tag, o, d>>

\* Py_DECREF of every reference in todo, in order; an object whose count
\* reaches zero is deallocated, which releases the references it holds.
RECURSIVE DecRefAll(_, _, _)
DecRefAll(rc, its, todo) ==
  IF todo = <<>> THEN [refcnt |-> rc, items |-> its]
  ELSE LET o == Head(todo) IN
       IF rc[o] = 1
       THEN DecRefAll([rc EXCEPT ![o] = 0], [its EXCEPT ![o] = <<>>],
                      Tail(todo) \o its[o])
       ELSE DecRefAll([rc EXCEPT ![o] = @ - 1], its, Tail(todo))

\* ---------------------------------------------------------------- Init
ExternalRefs(k, o) ==
  IF o = "root" \/ (o = "nested" /\ k[o] = "List") THEN 1 ELSE 0

InitHeap ==
  /\ kind \in [Objs -> ObType]
  /\ kind["root"] \in ContainerKinds
  /\ kind["nested"] \in ContainerKinds
  /\ kind["leaf"] \in LeafKinds
  /\ fails \in [Objs -> BOOLEAN]
  /\ \A o \in Objs : fails[o] => kind[o] \in Fallible \cup WithState
  /\ items \in [Objs -> SeqsUpTo({"nested", "leaf"}, MaxLen)]
  /\ items["leaf"] = <<>>
  \* a tuple cannot hold itself; an object nothing refers to is left plain
  /\ kind["nested"] = "Tuple" => Occ(items["nested"], "nested") = 0
  /\ Occ(items["root"], "nested") = 0 =>
        items["nested"] = <<>> /\ kind["nested"] = "List"
  /\ Occ(items["root"], "leaf") + Occ(items["nested"], "leaf") = 0 =>
        kind["leaf"] = "None"
  /\ refcnt = [o \in Objs |->
                 ExternalRefs(kind, o) + Occ(items["root"], o)
                                       + Occ(items["nested"], o)]

InitCall(m) ==
  /\ mode = m
  /\ depth0 \in 0..(MaxDepth - 1)
  /\ stack = <<>>
  /\ out = <<>>
  /\ result = NoError
  /\ cs = NoObj
  /\ prev = <<>>
  /\ memfault = FALSE
  /\ nclass = 0
  /\ nmut = 0

Init == InitHeap /\ InitCall("exclusive")

\* a call of the Py_GIL_DISABLED build on a list another thread also holds
InitShared ==
  /\ InitHeap
  /\ InitCall("shared")
  /\ depth0 = 0
  /\ kind["root"] = "List"
  /\ kind["leaf"] = "Int"
  /\ fails["leaf"] = FALSE

\* ---------------------------------------------------------------- element access
\* *data_ptr.add(k - 1): the slot's content, or whatever lies past the end
ReadSlot(ob, k) == IF k <= Len(items[ob]) THEN {items[ob][k]} ELSE Objs

SlotFault(ob, k, v) == k > Len(items[ob]) \/ ~Alive(v)

\* pyobject_to_obtype(value, opts): the tag of a live object; a freed
\* object's memory may classify as anything
pyobject_to_obtype(v) == IF Alive(v) THEN {kind[v]} ELSE ObType

\* the element the loop handles next: through data_ptr (exclusive) or from
\* the snapshot (shared)
LoopValue(f) ==
  IF mode = "exclusive" THEN ReadSlot(f.ob, f.idx + 1) ELSE {f.snap[f.idx + 1]}

LoopFault(f, v) ==
  IF mode = "exclusive" THEN SlotFault(f.ob, f.idx + 1, v) ELSE ~Alive(v)

\* ---------------------------------------------------------------- construction
Frame(ob, len, state, phase) ==
  [ob |-> ob, len |-> len, state |-> state, snap |-> <<>>, idx |-> 0,
   phase |-> phase, err |-> NoError,
   \* history: the container's content when construction began, the slots
   \* read so far, the elements whose value was emitted so far, the elements
   \* classified so far, and the length of out when construction began
   src |-> items[ob], touched |-> 0, emitted |-> <<>>, classified |-> 0,
   base |-> Len(out)]

\* variant: the snapshot is taken without the critical section
SnapshotNoLock(ob) == NoObj

\* the lock from_list_snapshot takes around its reads (PyCriticalSection_Begin)
SnapshotLock(ob) == IF kind[ob] = "List" THEN ob ELSE NoObj

\* from_list / from_tuple called with the caller's state: the new serializer
\* (exclusive), or the start of its snapshot (shared)
Construct(callers, ob, state) ==
  IF mode = "exclusive"
  THEN /\ stack' = Append(callers, Frame(ob, Py_SIZE(ob),
                                         copy_for_recursive_call(state), "entry"))
       /\ cs' = cs
  ELSE /\ cs = NoObj
       /\ stack' = Append(callers, Frame(ob, Py_SIZE(ob), state, "snap"))
       /\ cs' = SnapshotLock(ob)

\* the top-level call: from_list or from_tuple on the root container
BeginRoot ==
  /\ stack = <<>>
  /\ result = NoError
  /\ Construct(stack, "root", SerializerState(depth0))
  /\ UNCHANGED <<heapvars, mode, depth0, out, result, prev, memfault, nclass, nmut>>

\* Py_INCREF(value) of the snapshot loop
SnapshotIncref(rc, v) == [rc EXCEPT ![v] = @ + 1]

\* one iteration of the snapshot loop: read slot, Py_INCREF, push
SnapshotStep ==
  /\ stack # <<>>
  /\ Top.phase = "snap"
  /\ Len(Top.snap) < Top.len
  /\ \E v \in ReadSlot(Top.ob, Len(Top.snap) + 1) :
       /\ refcnt' = SnapshotIncref(refcnt, v)
       /\ memfault' = (memfault \/ SlotFault(Top.ob, Len(Top.snap) + 1, v))
       /\ stack' = SetTop([Top EXCEPT !.snap = Append(@, v),
                                      !.touched = @ + 1])
  /\ UNCHANGED <<kind, fails, items, mode, depth0, out, result, cs, prev,
                 nclass, nmut>>

\* PyCriticalSection_End, items.into_boxed_slice(), Self { .. }
SnapshotEnd ==
  /\ stack # <<>>
  /\ Top.phase = "snap"
  /\ Len(Top.snap) = Top.len
  /\ stack' = SetTop([Top EXCEPT !.phase = "entry",
                                 !.len = Len(Top.snap),
                                 !.state = copy_for_recursive_call(@)])
  /\ cs' = NoObj
  /\ UNCHANGED <<heapvars, mode, depth0, out, result, prev, memfault, nclass, nmut>>

\* ---------------------------------------------------------------- serialize
\* variant: no fast path, an empty container opens and closes a sequence
EntryOutcomeNoZero(f) ==
  IF recursion_limit(f.state) THEN "limit" ELSE "open"

\* variant: the empty case is tested before the recursion limit
EntryOutcomeZeroFirst(f) ==
  IF f.len = 0 THEN "zero"
  ELSE IF recursion_limit(f.state) THEN "limit"
  ELSE "open"

\* the head of serialize: the limit check, the empty case, serialize_seq
EntryOutcome(f) ==
  IF recursion_limit(f.state) THEN "limit"
  ELSE IF f.len = 0 THEN "zero"
  ELSE "open"

\* variant: serialize_seq is called before the recursion limit is tested
SerializeEntryOpenFirst ==
  /\ stack # <<>>
  /\ Top.phase = "entry"
  /\ stack' = SetTop(
       IF recursion_limit(Top.state)
       THEN [Top EXCEPT !.phase = "err", !.err = RecursionLimit]
       ELSE [Top EXCEPT !.phase = "loop"])
  /\ out' = Append(out, Tok("[", NoObj, 0))
  /\ UNCHANGED <<heapvars, mode, depth0, result, cs, prev, memfault, nclass, nmut>>

SerializeEntry ==
  /\ stack # <<>>
  /\ Top.phase = "entry"
  /\ LET what == EntryOutcome(Top) IN
       /\ stack' = SetTop(
            IF what = "limit" THEN [Top EXCEPT !.phase = "err", !.err = RecursionLimit]
            ELSE IF what = "zero" THEN [Top EXCEPT !.phase = "ok"]
            ELSE [Top EXCEPT !.phase = "loop"])
       /\ out' = IF what = "limit" THEN out
                 ELSE IF what = "zero" THEN Append(out, Tok("[]", NoObj, 0))
                 ELSE Append(out, Tok("[", NoObj, 0))
  /\ UNCHANGED <<heapvars, mode, depth0, result, cs, prev, memfault, nclass, nmut>>

\* whether a List / Tuple element takes the ZeroListSerializer arm
ZeroShortcut(k, v) ==
  /\ k \in ContainerKinds
  /\ Py_SIZE(v) = 0
  /\ (mode = "exclusive" \/ k = "Tuple")

\* the state a leaf serializer is handed (0: none)
PassedDepth(k, f) == IF k \in WithState THEN f.state.depth ELSE 0

\* the result of serialize_element on a non-container element
LeafFails(k, v) == k \notin Infallible /\ fails[v]

\* variant: a failed element is skipped and the loop goes on
OnElementErrorSkip(f, e) == [f EXCEPT !.idx = @ + 1]

\* what the loop does to its own frame when an element's serializer fails
OnElementError(f, e) == [f EXCEPT !.phase = "err", !.err = e]

\* variant: the loop steps over the element after the one it emitted
AdvanceSkip(f, v) == [f EXCEPT !.idx = @ + 2, !.emitted = Append(@, v)]

\* the loop's move to the next index after an element was emitted
Advance(f, v) == [f EXCEPT !.idx = @ + 1, !.emitted = Append(@, v)]

\* the loop has fetched and classified one more element
Touch(f) ==
  [f EXCEPT !.classified = @ + 1,
            !.touched = IF mode = "exclusive" THEN @ + 1 ELSE @]

\* a scalar, rich, mapping, record or unknown element
ElementLeaf ==
  /\ stack # <<>>
  /\ Top.phase = "loop"
  /\ Top.idx < Top.len
  /\ \E v \in LoopValue(Top) : \E k \in pyobject_to_obtype(v) :
       /\ k \in LeafKinds
       /\ memfault' = (memfault \/ LoopFault(Top, v))
       /\ IF LeafFails(k, v)
          THEN /\ stack' = SetTop(OnElementError(Touch(Top), ElementError(k)))
               /\ out' = out
          ELSE /\ stack' = SetTop(Advance(Touch(Top), v))
               /\ out' = Append(out, Tok("v", v, PassedDepth(k, Top)))
  /\ nclass' = nclass + 1
  /\ UNCHANGED <<heapvars, mode, depth0, result, cs, prev, nmut>>

\* an empty list or tuple element served by ZeroListSerializer
ElementZero ==
  /\ stack # <<>>
  /\ Top.phase = "loop"
  /\ Top.idx < Top.len
  /\ \E v \in LoopValue(Top) : \E k \in pyobject_to_obtype(v) :
       /\ ZeroShortcut(k, v)
       /\ memfault' = (memfault \/ LoopFault(Top, v))
       /\ stack' = SetTop(Advance(Touch(Top), v))
       /\ out' = Append(out, Tok("[]", NoObj, 0))
  /\ nclass' = nclass + 1
  /\ UNCHANGED <<heapvars, mode, depth0, result, cs, prev, nmut>>

\* a list or tuple element served by a nested ListTupleSerializer
ElementNested ==
  /\ stack # <<>>
  /\ Top.phase = "loop"
  /\ Top.idx < Top.len
  /\ \E v \in LoopValue(Top) : \E k \in pyobject_to_obtype(v) :
       /\ k \in ContainerKinds
       /\ ~ZeroShortcut(k, v)
       /\ memfault' = (memfault \/ LoopFault(Top, v))
       /\ Construct(SetTop(Touch(Top)), v, Top.state)
  /\ nclass' = nclass + 1
  /\ UNCHANGED <<heapvars, mode, depth0, out, result, prev, nmut>>

\* seq.end()
SeqEnd ==
  /\ stack # <<>>
  /\ Top.phase = "loop"
  /\ Top.idx = Top.len
  /\ stack' = SetTop([Top EXCEPT !.phase = "ok"])
  /\ out' = Append(out, Tok("]", NoObj, 0))
  /\ UNCHANGED <<heapvars, mode, depth0, result, cs, prev, memfault, nclass, nmut>>

\* variant: the references are released only when serialize succeeded
ReleasedOnSuccessOnly(f) ==
  IF mode = "shared" /\ f.phase = "ok" THEN f.snap ELSE <<>>

\* the references Drop releases
Released(f) == IF mode = "shared" THEN f.snap ELSE <<>>

\* variant: the child's state is written back to the caller's
ResumeSharedState(parent, f) ==
  IF f.phase = "ok" THEN [Advance(parent, f.ob) EXCEPT !.state = f.state]
  ELSE OnElementError(parent, f.err)

\* what the caller's loop does with the value serialize returned
Resume(parent, f) ==
  IF f.phase = "ok" THEN Advance(parent, f.ob) ELSE OnElementError(parent, f.err)

\* serialize has returned: the serializer goes out of scope (Drop), and the
\* caller's serialize_element(..)? continues or returns the same Err
Return ==
  /\ stack # <<>>
  /\ Top.phase \in {"ok", "err"}
  /\ LET f == Top
         h == DecRefAll(refcnt, items, Released(f))
         rest == SubSeq(stack, 1, Len(stack) - 1)
     IN /\ refcnt' = h.refcnt
        /\ items' = h.items
        /\ IF rest = <<>>
           THEN /\ stack' = <<>>
                /\ result' = IF f.phase = "ok" THEN <<"ok", "">> ELSE f.err
           ELSE /\ stack' = [rest EXCEPT ![Len(rest)] = Resume(@, f)]
                /\ result' = result
  /\ UNCHANGED <<kind, fails, mode, depth0, out, cs, prev, memfault, nclass, nmut>>

\* the same input handed to the build compiled with Py_GIL_DISABLED
SwitchMode ==
  /\ mode = "exclusive"
  /\ result # NoError
  /\ prev' = <<result, out>>
  /\ mode' = "shared"
  /\ out' = <<>>
  /\ result' = NoError
  /\ nclass' = 0
  /\ UNCHANGED <<heapvars, depth0, stack, cs, memfault, nmut>>

Serializer ==
  \/ BeginRoot
  \/ SnapshotStep
  \/ SnapshotEnd
  \/ SerializeEntry
  \/ ElementLeaf
  \/ ElementZero
  \/ ElementNested
  \/ SeqEnd
  \/ Return

Next == Serializer \/ SwitchMode

\* ---------------------------------------------------------------- other thread
\* A list the other thread may mutate now: list methods take the list's
\* critical section, so they wait while the snapshot holds it.
Mutable(l) ==
  /\ mode = "shared"
  /\ stack # <<>>
  /\ nmut < MaxMut
  /\ kind[l] = "List"
  /\ Alive(l)
  /\ cs # l

MutAppend ==
  \E l \in Objs, o \in Objs :
    /\ Mutable(l)
    /\ Alive(o)
    /\ Len(items[l]) < MaxLen
    /\ items' = [items EXCEPT ![l] = Append(@, o)]
    /\ refcnt' = [refcnt EXCEPT ![o] = @ + 1]
    /\ nmut' = nmut + 1
    /\ UNCHANGED <<kind, fails, mode, depth0, stack, out, result, cs, prev,
                   memfault, nclass>>

MutOverwrite ==
  \E l \in Objs, o \in Objs :
    /\ Mutable(l)
    /\ Alive(o)
    /\ \E i \in 1..Len(items[l]) :
         LET h == DecRefAll([refcnt EXCEPT ![o] = @ + 1],
                            [items EXCEPT ![l][i] = o], <<items[l][i]>>)
         IN /\ items' = h.items
            /\ refcnt' = h.refcnt
    /\ nmut' = nmut + 1
    /\ UNCHANGED <<kind, fails, mode, depth0, stack, out, result, cs, prev,
                   memfault, nclass>>

\* del l[n:] for 0 < n < len(l)
MutTruncate ==
  \E l \in Objs :
    /\ Mutable(l)
    /\ \E n \in 1..(Len(items[l]) - 1) :
         LET h == DecRefAll(refcnt, [items EXCEPT ![l] = SubSeq(@, 1, n)],
                            SubSeq(items[l], n + 1, Len(items[l])))
         IN /\ items' = h.items
            /\ refcnt' = h.refcnt
    /\ nmut' = nmut + 1
    /\ UNCHANGED <<kind, fails, mode, depth0, stack, out, result, cs, prev,
                   memfault, nclass>>

MutClear ==
  \E l \in Objs :
    /\ Mutable(l)
    /\ items[l] # <<>>
    /\ LET h == DecRefAll(refcnt, [items EXCEPT ![l] = <<>>], items[l])
       IN /\ items' = h.items
          /\ refcnt' = h.refcnt
    /\ nmut' = nmut + 1
    /\ UNCHANGED <<kind, fails, mode, depth0, stack, out, result, cs, prev,
                   memfault, nclass>>

Mutator == MutAppend \/ MutOverwrite \/ MutTruncate \/ MutClear

NextMut == Serializer \/ Mutator

SpecMut == InitShared /\ [][NextMut]_vars

Spec == Init /\ [][Next]_vars

\* ================================================================ properties
Frames == {stack[i] : i \in 1..Len(stack)}

\* what was written since this serializer's construction began
OwnOut(f) == SubSeq(out, f.base + 1, Len(out))

\* serialize has been entered and has passed its head
Entered(f) == f.phase \in {"loop", "ok", "err"}

Ok == <<"ok", "">>

\* the JSON array of container o whose serializer holds depth d
RECURSIVE Expected(_, _)
Expected(o, d) ==
  IF d > MaxDepth THEN <<>>
  ELSE IF items[o] = <<>> THEN <<Tok("[]", NoObj, 0)>>
  ELSE LET elem(v) ==
             IF kind[v] \in ContainerKinds THEN Expected(v, d + 1)
             ELSE <<Tok("v", v, IF kind[v] \in WithState THEN d ELSE 0)>>
           body[k \in 0..Len(items[o])] ==
             IF k = 0 THEN <<>> ELSE body[k - 1] \o elem(items[o][k])
       IN <<Tok("[", NoObj, 0)>> \o body[Len(items[o])] \o <<Tok("]", NoObj, 0)>>

\* ---------------------------------------------------------------- C1
\* C1 as stated: a serializer of a container of length 0 always succeeds,
\* at any depth, and writes exactly the token [].
C1_ZeroAlwaysSucceeds ==
  \A f \in Frames :
    (f.len = 0 /\ Entered(f)) =>
       f.phase = "ok" /\ OwnOut(f) = <<Tok("[]", NoObj, 0)>>

\* C1 amended: a serializer of a container of length 0 whose depth is below
\* the maximum succeeds and writes exactly []; at the maximum it returns the
\* recursion-limit error and writes nothing.
C1_ZeroBelowLimit ==
  \A f \in Frames :
    (f.len = 0 /\ Entered(f)) =>
       IF f.state.depth < MaxDepth
       THEN f.phase = "ok" /\ OwnOut(f) = <<Tok("[]", NoObj, 0)>>
       ELSE f.phase = "err" /\ f.err = RecursionLimit /\ OwnOut(f) = <<>>

C1_Witness ==
  /\ Len(stack) = 1
  /\ Top.len = 0
  /\ Top.phase = "ok"
  /\ kind["root"] = "Tuple"
  /\ mode = "shared"

\* ---------------------------------------------------------------- C2
\* C2: every serializer emits its elements in index order, each once, and a
\* successful call has written the array of the whole container: one open,
\* the value of every element in index order, one close.
C2_IndexOrder ==
  /\ \A f \in Frames :
       /\ Entered(f) => f.idx <= Len(f.src) /\ f.emitted = SubSeq(f.src, 1, f.idx)
       /\ f.phase = "ok" => f.emitted = f.src
  /\ result = Ok => out = Expected("root", depth0 + 1)

C2_Witness ==
  /\ result = Ok
  /\ mode = "shared"
  /\ items["root"] = <<"nested", "leaf">>
  /\ items["nested"] = <<"leaf", "leaf">>
  /\ Len(out) = 7

C4_SnapshotInstant ==
  /\ ~memfault
  /\ \A f \in Frames :
       /\ \A k \in 1..Len(f.snap) : Alive(f.snap[k])
       /\ f.snap = SubSeq(f.src, 1, Len(f.snap))
       /\ f.phase # "snap" => f.snap = f.src /\ f.len = Len(f.src)
       /\ Entered(f) => f.idx <= Len(f.src) /\ f.emitted = SubSeq(f.src, 1, f.idx)
       /\ f.phase = "ok" => f.emitted = f.src

\* the list was emptied by the other thread after the snapshot, the walk has
\* emitted every element, and only the snapshot keeps the elements alive
C4_Witness ==
  \E f \in Frames :
    /\ f.phase = "ok"
    /\ Len(f.src) = MaxLen
    /\ items[f.ob] = <<>>
    /\ f.emitted = f.src
    /\ \A k \in 1..Len(f.snap) : refcnt[f.snap[k]] = Occ(f.snap, f.snap[k])

\* ---------------------------------------------------------------- C5
\* the references the live serializers hold on o
Held(o) ==
  LET n[i \in 0..Len(stack)] ==
        IF i = 0 THEN 0 ELSE n[i - 1] + Occ(stack[i].snap, o)
  IN n[Len(stack)]

\* the count of o before the call
CountBefore(o) ==
  ExternalRefs(kind, o) + Occ(items["root"], o) + Occ(items["nested"], o)

\* C5: every count is its value before the call plus one per reference a
\* live serializer's snapshot holds; so when the root call has ended, with
\* success or with any error, every count is back at its value before it.
C5_CountsBalanced ==
  /\ \A o \in Objs : refcnt[o] = CountBefore(o) + Held(o)
  /\ result # NoError => stack = <<>> /\ \A o \in Objs : refcnt[o] = CountBefore(o)
  /\ mode = "exclusive" => \A f \in Frames : f.snap = <<>>

\* a shared-mode call that ended with an element's error below the root,
\* after two snapshots were taken
C5_Witness ==
  /\ mode = "shared"
  /\ result[1] = "ElementError"
  /\ items["root"] = <<"leaf", "nested">> \/ items["root"] = <<"nested", "leaf">>
  /\ items["nested"] # <<>>
  /\ Len(out) >= 2

\* ---------------------------------------------------------------- C6
Failed == stack # <<>> /\ Top.phase = "err"

\* C6: once a serializer has an error, nothing more is classified or written,
\* the error is handed unchanged to the caller at every level, and the call
\* returns it; and a call returns success only with the complete array of the
\* whole subtree written.
C6_FailFast ==
  [][ /\ Failed =>
           /\ out' = out
           /\ nclass' = nclass
           /\ IF Len(stack) = 1
              THEN stack' = <<>> /\ result' = Top.err
              ELSE /\ Len(stack') = Len(stack) - 1
                   /\ stack'[Len(stack')].phase = "err"
                   /\ stack'[Len(stack')].err = Top.err
                   /\ result' = NoError
      /\ (\E f \in Frames : f.phase = "err") => Failed
      /\ result' = Ok => out' = Expected("root", depth0 + 1)
    ]_vars

\* the first element failed: the call returned its error with only the open
\* written and the second element never classified
C6_Witness ==
  /\ result = ElementError(kind["leaf"])
  /\ Len(items["root"]) = 2
  /\ items["root"][1] = "leaf"
  /\ nclass = 1
  /\ Len(out) = 1

\* ---------------------------------------------------------------- C7
\* C7: the i-th serializer on the stack holds the caller's depth plus i (a
\* serializer still taking its snapshot holds the state it was given), so a
\* caller's depth is not changed by the nested serializers it ran.
C7_DepthIsLevel ==
  \A i \in 1..Len(stack) :
    stack[i].state.depth = depth0 + (IF stack[i].phase = "snap" THEN i - 1 ELSE i)

\* a second nested sibling is being serialized after the first one returned
C7_Witness ==
  /\ Len(stack) = 2
  /\ stack[1].idx = 1
  /\ stack[1].emitted = <<"nested">>
  /\ stack[2].ob = "nested"
  /\ stack[2].phase = "loop"

\* ---------------------------------------------------------------- C8
\* the serializer was refused by the recursion limit
Refused(f) == Entered(f) /\ f.state.depth >= MaxDepth

\* C8 as stated: a serializer refused by the recursion limit has read no
\* element and changed no ownership count since its construction began.
C8_NoAccessBeforeLimit ==
  \A f \in Frames : Refused(f) => f.touched = 0 /\ f.snap = <<>>

\* C8 amended: a refused serializer has classified and emitted no element and
\* written nothing; in the exclusive build it has read no element and holds no
\* reference; in the shared build its construction has read every element once
\* and holds one reference to each.
C8_NoClassifyBeforeLimit ==
  \A f \in Frames :
    Refused(f) =>
       /\ f.phase = "err" /\ f.err = RecursionLimit
       /\ f.classified = 0 /\ f.emitted = <<>> /\ OwnOut(f) = <<>>
       /\ mode = "exclusive" => f.touched = 0 /\ f.snap = <<>>
       /\ mode = "shared" => f.touched = Len(f.src) /\ f.snap = f.src

C8_Witness ==
  /\ mode = "shared"
  /\ stack # <<>>
  /\ Refused(Top)
  /\ Top.touched = MaxLen

\* ---------------------------------------------------------------- C9
\* C9 as stated: no nested serializer is ever constructed for an empty list
\* or tuple element.
C9_EmptyElementShortcut ==
  \A i \in 2..Len(stack) : stack[i].src # <<>>

\* ---------------------------------------------------------------- C10
\* C10 as stated: the shared build's outcome (result and output) for an input
\* is the exclusive build's outcome for it.
C10_SameOutcome ==
  (mode = "shared" /\ result # NoError) => <<result, out>> = prev

====
